---- MODULE Spec2Model ----
(***************************************************************************)
(* Model of the Multi-Store Report Calculator (src/streamlit_app.py):      *)
(* report parsing, per-store metrics, exact-calendar goal proration and    *)
(* the grouped subtotal rows.                                              *)
(*                                                                         *)
(* Conventions of the model                                                *)
(*   - Python's None is the empty tuple <<>>; a present value is a         *)
(*     non-empty tuple.                                                    *)
(*   - A float amount is an exact rational <<n, d>> with d > 0, always in  *)
(*     lowest terms (exact arithmetic in place of IEEE doubles).           *)
(*   - An int that may be None is boxed: <<k>>.                            *)
(*   - A date is <<year, month, day>>.                                     *)
(*   - A piece of text is a tuple of one-character strings; a report is a  *)
(*     tuple of lines, a line a tuple of whitespace-separated tokens, a    *)
(*     token a tuple of characters.                                        *)
(***************************************************************************)
EXTENDS Integers, Sequences, FiniteSets, TLC

VARIABLES
    pc,            \* where the script is: "ui", "loop", "footer", "shown", "stopped"
    report_texts,  \* the text areas' contents (streamlit_app.py:176-185)
    goals_df,      \* the edited goals table (streamlit_app.py:204-215)
    idx,           \* enumerate(report_texts, start=1) position
    rows_out,      \* per-store rows built so far (streamlit_app.py:232)
    loop,          \* the frame of prorated_goal_exact_calendar's day loop
    call,          \* a direct call of one helper: its name and arguments
    ret            \* what that call returned

vars == <<pc, report_texts, goals_df, idx, rows_out, loop, call, ret>>

None == <<>>

(***************************************************************************)
(* Exact rational arithmetic standing for Python float arithmetic.         *)
(***************************************************************************)
Abs(x) == IF x < 0 THEN -x ELSE x

RECURSIVE GCD(_, _)
GCD(a, b) == IF b = 0 THEN a ELSE GCD(b, a % b)

Norm(n, d) ==
    LET g == GCD(Abs(n), d)
    IN  <<n \div g, d \div g>>

FromInt(k) == <<k, 1>>

Zero == FromInt(0)

RAdd(a, b) ==
    LET l == (a[2] \div GCD(a[2], b[2])) * b[2]
    IN  Norm(a[1] * (l \div a[2]) + b[1] * (l \div b[2]), l)

RNeg(a) == <<-a[1], a[2]>>

RSub(a, b) == RAdd(a, RNeg(b))

\* a / k for an integer k > 0
RDivInt(a, k) ==
    LET g == GCD(Abs(a[1]), k)
    IN  <<a[1] \div g, a[2] * (k \div g)>>

(***************************************************************************)
(* The calendar: datetime.date, calendar.monthrange.                       *)
(***************************************************************************)
IsLeap(y) == (y % 4 = 0) /\ ((y % 100 # 0) \/ (y % 400 = 0))

month_days(year, month) ==
    CASE month \in {1, 3, 5, 7, 8, 10, 12} -> 31
      [] month \in {4, 6, 9, 11} -> 30
      [] OTHER -> IF IsLeap(year) THEN 29 ELSE 28

\* days of the year before the first of month m
DaysBeforeMonth(y, m) ==
    <<0, 31, 59, 90, 120, 151, 181, 212, 243, 273, 304, 334>>[m]
        + (IF m > 2 /\ IsLeap(y) THEN 1 ELSE 0)

\* date.toordinal(): 1 for 0001-01-01
ToOrdinal(d) ==
    LET y == d[1] - 1
    IN  y * 365 + (y \div 4) - (y \div 100) + (y \div 400)
          + DaysBeforeMonth(d[1], d[2]) + d[3]

\* date.weekday(): Monday = 0 ... Sunday = 6
Weekday(d) == (ToOrdinal(d) + 6) % 7

is_sunday(d) == Weekday(d) = 6

\* d + timedelta(days=1)
NextDay(d) ==
    IF d[3] < month_days(d[1], d[2]) THEN <<d[1], d[2], d[3] + 1>>
    ELSE IF d[2] < 12 THEN <<d[1], d[2] + 1, 1>>
    ELSE <<d[1] + 1, 1, 1>>

\* d1 <= d2 on dates
DateLE(d1, d2) ==
    \/ d1[1] < d2[1]
    \/ d1[1] = d2[1] /\ d1[2] < d2[2]
    \/ d1[1] = d2[1] /\ d1[2] = d2[2] /\ d1[3] <= d2[3]

\* for day in range(1, dim + 1): if is_sunday(date(year, month, day)): sundays += 1
count_sundays_in_month(year, month) ==
    LET dim == month_days(year, month)
    IN  Cardinality({day \in 1..dim : is_sunday(<<year, month, day>>)})

(***************************************************************************)
(* prorated_goal_exact_calendar: the day-by-day loop.                      *)
(***************************************************************************)
\* A variant of daily_goal: a 6-day store's goal divided by every day of the
\* month, Sundays included, while Sundays still earn nothing.
daily_goal_over_all_days(monthly_goal, d, six_day_store) ==
    LET dim == month_days(d[1], d[2])
    IN  IF six_day_store /\ is_sunday(d) THEN Zero
        ELSE RDivInt(monthly_goal, dim)

\* One day's addition to total; None stands for the loop's `continue`.
daily_goal(monthly_goal, d, six_day_store) ==
    LET dim == month_days(d[1], d[2])
        workdays_in_month == dim - count_sundays_in_month(d[1], d[2])
    IN  IF six_day_store
        THEN IF workdays_in_month <= 0 THEN None
             ELSE IF is_sunday(d) THEN Zero
             ELSE RDivInt(monthly_goal, workdays_in_month)
        ELSE RDivInt(monthly_goal, dim)

\* A variant of InRange: the end date excluded (cur < d2).
InRangeExclusive(cur, d2) == DateLE(cur, d2) /\ cur # d2

\* daterange_inclusive's test: while cur <= d2
InRange(cur, d2) == DateLE(cur, d2)

NoLoop == [active |-> FALSE]

\* Entering the function with every argument present: total = 0.0 and the
\* generator at its first day.
EnterLoop(monthly_goal, start, end, six_day_store) ==
    [active |-> TRUE, monthly_goal |-> monthly_goal, cur |-> start, end |-> end,
     six_day_store |-> six_day_store, total |-> Zero]

\* One turn of `for d in daterange_inclusive(start, end)`: total += daily_goal
\* (or `continue`), then cur += timedelta(days=1).
ProrateStep ==
    /\ loop.active
    /\ InRange(loop.cur, loop.end)
    /\ LET dg == daily_goal(loop.monthly_goal, loop.cur, loop.six_day_store)
       IN  loop' = [loop EXCEPT
                      !.total = IF dg = None THEN @ ELSE RAdd(@, dg),
                      !.cur = NextDay(@)]
    /\ UNCHANGED <<pc, report_texts, goals_df, idx, rows_out, call, ret>>

\* The generator is exhausted: `return total` is due.
LoopExhausted == loop.active /\ ~InRange(loop.cur, loop.end)

(***************************************************************************)
(* Text.  Characters are one-character strings.  A report text is seen     *)
(* through its lines and their whitespace-separated tokens: every pattern  *)
(* of the parser is matched against whole tokens of one line, or of        *)
(* consecutive non-blank lines.                                            *)
(***************************************************************************)
Digits == {"0", "1", "2", "3", "4", "5", "6", "7", "8", "9"}

DigitVal(c) ==
    CASE c = "0" -> 0 [] c = "1" -> 1 [] c = "2" -> 2 [] c = "3" -> 3 [] c = "4" -> 4
      [] c = "5" -> 5 [] c = "6" -> 6 [] c = "7" -> 7 [] c = "8" -> 8 [] c = "9" -> 9

DigitChar(k) == <<"0", "1", "2", "3", "4", "5", "6", "7", "8", "9">>[k + 1]

\* \d+
IsDigits(s) == Len(s) >= 1 /\ \A i \in 1..Len(s) : s[i] \in Digits

\* int(s) for a run of digits
RECURSIVE ToInt(_)
ToInt(s) ==
    IF Len(s) = 0 THEN 0
    ELSE 10 * ToInt(SubSeq(s, 1, Len(s) - 1)) + DigitVal(s[Len(s)])

\* str(k) for k >= 0, as in an f-string
RECURSIVE IntToChars(_)
IntToChars(k) ==
    IF k < 10 THEN <<DigitChar(k)>>
    ELSE Append(IntToChars(k \div 10), DigitChar(k % 10))

\* s.replace(c, "")
Remove(s, c) == SelectSeq(s, LAMBDA x : x # c)

\* Lower case of the letters the labels use (re.IGNORECASE).
Lower(c) ==
    CASE c = "C" -> "c" [] c = "E" -> "e" [] c = "N" -> "n" [] c = "T" -> "t"
      [] c = "R" -> "r" [] c = "D" -> "d" [] c = "A" -> "a" [] c = "G" -> "g"
      [] c = "O" -> "o" [] c = "L" -> "l" [] c = "S" -> "s"
      [] OTHER -> c

LowerSeq(s) == [i \in 1..Len(s) |-> Lower(s[i])]

EndsWithNoCase(s, suffix) ==
    /\ Len(s) >= Len(suffix)
    /\ LowerSeq(SubSeq(s, Len(s) - Len(suffix) + 1, Len(s))) = suffix

\* \$([\d,]+\.\d{2}) filling a whole token
IsMoneyToken(s) ==
    /\ Len(s) >= 5
    /\ s[1] = "$"
    /\ \A i \in 2..(Len(s) - 3) : s[i] \in Digits \cup {","}
    /\ s[Len(s) - 2] = "."
    /\ s[Len(s) - 1] \in Digits /\ s[Len(s)] \in Digits

\* The pattern's group: the token without its "$".
MoneyGroup(s) == SubSeq(s, 2, Len(s))

\* float(s.replace(",", "").replace("$", "").strip()) of a [\d,]+\.\d{2} group
money_to_float(s) ==
    LET t == Remove(Remove(s, ","), "$")
        whole == SubSeq(t, 1, Len(t) - 3)
        cents == SubSeq(t, Len(t) - 1, Len(t))
    IN  Norm(ToInt(whole) * 100 + ToInt(cents), 100)

(***************************************************************************)
(* parse_date_any: strptime with "%m/%d/%Y", then "%m/%d/%y".              *)
(***************************************************************************)
\* The pieces of s between its "/" characters.
RECURSIVE SplitSlash(_)
SplitSlash(s) ==
    IF Len(s) = 0 THEN <<<<>>>>
    ELSE LET rest == SplitSlash(SubSeq(s, 1, Len(s) - 1))
             n == Len(rest)
         IN  IF s[Len(s)] = "/" THEN Append(rest, <<>>)
             ELSE [rest EXCEPT ![n] = Append(@, s[Len(s)])]

\* %m: 1[0-2]|0[1-9]|[1-9]      %d: 3[01]|[12]\d|0[1-9]|[1-9]
FieldOK(part, max) ==
    /\ IsDigits(part) /\ Len(part) <= 2
    /\ ToInt(part) >= 1 /\ ToInt(part) <= max

\* datetime.strptime(s, fmt).date(), None standing for ValueError.
\* fmt is "Y" (four-digit year) or "y" (two-digit year, 69-99 in the 1900s).
Strptime(s, fmt) ==
    LET p == SplitSlash(s)
    IN  IF Len(p) # 3 THEN None
        ELSE IF ~(FieldOK(p[1], 12) /\ FieldOK(p[2], 31) /\ IsDigits(p[3])) THEN None
        ELSE IF Len(p[3]) # (IF fmt = "Y" THEN 4 ELSE 2) THEN None
        ELSE LET yy == ToInt(p[3])
                 year == IF fmt = "Y" THEN yy
                         ELSE IF yy <= 68 THEN 2000 + yy ELSE 1900 + yy
                 month == ToInt(p[1])
                 day == ToInt(p[2])
             IN  IF year < 1 \/ day > month_days(year, month) THEN None
                 ELSE <<year, month, day>>

parse_date_any(s) ==
    IF Strptime(s, "Y") # None THEN Strptime(s, "Y")
    ELSE IF Strptime(s, "y") # None THEN Strptime(s, "y")
    ELSE None

(***************************************************************************)
(* parse_worker_sales_by_category                                          *)
(***************************************************************************)
\* The longest prefix of s made of characters of class: a greedy ([...]+).
ClassPrefix(s, class) ==
    LET k == CHOOSE n \in 0..Len(s) :
                 /\ \A i \in 1..n : s[i] \in class
                 /\ n = Len(s) \/ s[n + 1] \notin class
    IN  SubSeq(s, 1, k)

\* The first non-blank line after line i (0: none): what \s*\n skips to.
NextNonBlank(lines, i) ==
    LET later == {j \in (i + 1)..Len(lines) : lines[j] # <<>>}
    IN  IF later = {} THEN 0 ELSE CHOOSE j \in later : \A k \in later : j <= k

Min(S) == CHOOSE x \in S : \A y \in S : x <= y

c_center == <<"c", "e", "n", "t", "e", "r", ":">>

c_date == <<"d", "a", "t", "e">>

c_range == <<"r", "a", "n", "g", "e", ":">>

c_to == <<"t", "o">>

c_totals == <<"t", "o", "t", "a", "l", "s">>

\* r"Center:\s*\n(\d+)" matched with "Center:" ending line i: the digit run
\* opening the next non-blank line, or None.
CenterAt(lines, i) ==
    LET L == lines[i]
        j == NextNonBlank(lines, i)
    IN  IF Len(L) >= 1 /\ EndsWithNoCase(L[Len(L)], c_center) /\ j # 0
        THEN ClassPrefix(lines[j][1], Digits)
        ELSE None

\* r"Date Range:\s*\n([0-9/]+)\s*\nto\s*\n([0-9/]+)" with "Date Range:" ending
\* line i: the two groups, or None.
DateRangeAt(lines, i) ==
    LET L == lines[i]
        j1 == NextNonBlank(lines, i)
        j2 == IF j1 = 0 THEN 0 ELSE NextNonBlank(lines, j1)
        j3 == IF j2 = 0 THEN 0 ELSE NextNonBlank(lines, j2)
        cls == Digits \cup {"/"}
    IN  IF /\ Len(L) >= 2
           /\ EndsWithNoCase(L[Len(L) - 1], c_date)
           /\ LowerSeq(L[Len(L)]) = c_range
           /\ j3 # 0
           /\ Len(lines[j1]) = 1
           /\ ClassPrefix(lines[j1][1], cls) = lines[j1][1]
           /\ Len(lines[j2]) = 1
           /\ LowerSeq(lines[j2][1]) = c_to
           /\ ClassPrefix(lines[j3][1], cls) # <<>>
        THEN <<lines[j1][1], ClassPrefix(lines[j3][1], cls)>>
        ELSE None

\* The five numeric fields closing a row: (\d+) (\d+) \$(..) \$(..) \$(..)
FiveFields(L) ==
    LET n == Len(L)
    IN  /\ n >= 5
        /\ IsDigits(L[n - 4]) /\ IsDigits(L[n - 3])
        /\ IsMoneyToken(L[n - 2]) /\ IsMoneyToken(L[n - 1]) /\ IsMoneyToken(L[n])

FieldsOf(L) ==
    LET n == Len(L)
    IN  [customer_count |-> ToInt(L[n - 4]),
         item_count |-> ToInt(L[n - 3]),
         income |-> money_to_float(MoneyGroup(L[n - 2])),
         customer_avg |-> money_to_float(MoneyGroup(L[n - 1])),
         item_avg |-> money_to_float(MoneyGroup(L[n]))]

\* The category name of a row line: what follows the marker, up to the five
\* fields (the name's words).
RowName(L) ==
    (IF Len(L[1]) > 1 THEN <<Tail(L[1])>> ELSE <<>>) \o SubSeq(L, 2, Len(L) - 5)

\* row_re: ^[\+\-]\s*(.+?)\s+ then the five fields, to the end of the line
IsRowLine(L) ==
    /\ Len(L) >= 1
    /\ L[1][1] \in {"+", "-"}
    /\ FiveFields(L)
    /\ RowName(L) # <<>>

\* A variant of SetRow: the first row of a category is kept.
SetRowKeepFirst(rows, cat, fields) ==
    [c \in DOMAIN rows \cup {cat} |-> IF c \in DOMAIN rows THEN rows[c] ELSE fields]

\* rows[cat] = {...}: a later row of the same category overwrites
SetRow(rows, cat, fields) ==
    [c \in DOMAIN rows \cup {cat} |-> IF c = cat THEN fields ELSE rows[c]]

\* for ... in row_re.findall(text): the mapping after the first k lines
RECURSIVE RowsUpTo(_, _)
RowsUpTo(lines, k) ==
    IF k = 0 THEN <<>>
    ELSE LET rows == RowsUpTo(lines, k - 1)
         IN  IF IsRowLine(lines[k])
             THEN SetRow(rows, RowName(lines[k]), FieldsOf(lines[k]))
             ELSE rows

\* ^Totals\s+ then the five fields, to the end of the line (IGNORECASE)
IsTotalsLine(L) ==
    /\ Len(L) = 6
    /\ LowerSeq(L[1]) = c_totals
    /\ FiveFields(L)

c_sep == <<" ", "t", "o", " ">>

\* f"{d.month}/{d.day}/{d.year}"
FormatDate(d) == IntToChars(d[2]) \o <<"/">> \o IntToChars(d[3]) \o <<"/">> \o IntToChars(d[1])

parse_worker_sales_by_category(text) ==
    LET cAt == {i \in 1..Len(text) : CenterAt(text, i) # None}
        center == IF cAt = {} THEN None ELSE CenterAt(text, Min(cAt))
        dAt == {i \in 1..Len(text) : DateRangeAt(text, i) # None}
        m == IF dAt = {} THEN None ELSE DateRangeAt(text, Min(dAt))
        start_date == IF m = None THEN None ELSE parse_date_any(m[1])
        end_date == IF m = None THEN None ELSE parse_date_any(m[2])
        date_range_str ==
            IF start_date # None /\ end_date # None
            THEN FormatDate(start_date) \o c_sep \o FormatDate(end_date)
            ELSE IF m # None THEN m[1] \o c_sep \o m[2]
            ELSE None
        tAt == {i \in 1..Len(text) : IsTotalsLine(text[i])}
        totals == IF tAt = {} THEN None ELSE FieldsOf(text[Min(tAt)])
    IN  [meta |-> [center |-> center, date_range |-> date_range_str,
                   start_date |-> start_date, end_date |-> end_date],
         rows |-> RowsUpTo(text, Len(text)),
         totals |-> totals]

\* rows.get(category_name, {}).get("income", default)
get_income(rows, category_name, default) ==
    IF category_name \in DOMAIN rows THEN rows[category_name].income ELSE default

\* rows.get(category_name, {}).get("customer_count", default)
get_customer_count(rows, category_name, default) ==
    IF category_name \in DOMAIN rows THEN rows[category_name].customer_count ELSE default

(***************************************************************************)
(* The category names the script looks up, each as the words of the name.  *)
(***************************************************************************)
\* "Shipping Charges (UPS)"
n_ups ==
    <<<<"S", "h", "i", "p", "p", "i", "n", "g">>, <<"C", "h", "a", "r", "g", "e", "s">>, <<"(", "U", "P", "S", ")">>>>

\* "Meter Mail"
n_meter ==
    <<<<"M", "e", "t", "e", "r">>, <<"M", "a", "i", "l">>>>

\* "Mailbox Service"
n_mailbox ==
    <<<<"M", "a", "i", "l", "b", "o", "x">>, <<"S", "e", "r", "v", "i", "c", "e">>>>

\* "Notary"
n_notary ==
    <<<<"N", "o", "t", "a", "r", "y">>>>

\* "Public Service Payments"
n_psp ==
    <<<<"P", "u", "b", "l", "i", "c">>, <<"S", "e", "r", "v", "i", "c", "e">>, <<"P", "a", "y", "m", "e", "n", "t", "s">>>>

\* "Printing"
n_printing ==
    <<<<"P", "r", "i", "n", "t", "i", "n", "g">>>>

\* "Copies"
n_copies ==
    <<<<"C", "o", "p", "i", "e", "s">>>>

\* "Color Copies"
n_color_copies ==
    <<<<"C", "o", "l", "o", "r">>, <<"C", "o", "p", "i", "e", "s">>>>

\* "Office Supplies"
n_office ==
    <<<<"O", "f", "f", "i", "c", "e">>, <<"S", "u", "p", "p", "l", "i", "e", "s">>>>

\* "Packaging Materials"
n_pack_materials ==
    <<<<"P", "a", "c", "k", "a", "g", "i", "n", "g">>, <<"M", "a", "t", "e", "r", "i", "a", "l", "s">>>>

\* "Packaging Service Fee"
n_pack_fee ==
    <<<<"P", "a", "c", "k", "a", "g", "i", "n", "g">>, <<"S", "e", "r", "v", "i", "c", "e">>, <<"F", "e", "e">>>>

\* "Retail Shipping Supplies"
n_retail ==
    <<<<"R", "e", "t", "a", "i", "l">>, <<"S", "h", "i", "p", "p", "i", "n", "g">>, <<"S", "u", "p", "p", "l", "i", "e", "s">>>>

\* "Shred Sales"
n_shred_sales ==
    <<<<"S", "h", "r", "e", "d">>, <<"S", "a", "l", "e", "s">>>>

\* "Shred"
n_shred ==
    <<<<"S", "h", "r", "e", "d">>>>

\* "Shredding"
n_shredding ==
    <<<<"S", "h", "r", "e", "d", "d", "i", "n", "g">>>>

(***************************************************************************)
(* CENTER_NAMES, FEB_GOALS_2026 and the order of the prefilled goals table.*)
(***************************************************************************)
Centers ==
    <<<<"1", "5", "0", "4">>,
      <<"5", "0", "2", "7">>,
      <<"5", "0", "5", "2">>,
      <<"5", "2", "5", "5">>,
      <<"5", "7", "7", "8">>,
      <<"6", "1", "7", "6">>,
      <<"6", "7", "6", "9">>,
      <<"7", "2", "6", "1">>>>

CenterSet == {Centers[i] : i \in 1..Len(Centers)}

\* CENTER_NAMES.get(c, "")
CENTER_NAMES(c) ==
    CASE c = <<"1", "5", "0", "4">> -> "Yucaipa"
      [] c = <<"5", "0", "2", "7">> -> "Beaumont"
      [] c = <<"5", "0", "5", "2">> -> "Ontario"
      [] c = <<"5", "2", "5", "5">> -> "Summit"
      [] c = <<"5", "7", "7", "8">> -> "Citrus"
      [] c = <<"6", "1", "7", "6">> -> "Sierra"
      [] c = <<"6", "7", "6", "9">> -> "Loma Linda"
      [] c = <<"7", "2", "6", "1">> -> "Ayala"
      [] OTHER -> ""

\* FEB_GOALS_2026.get(c, None)
FEB_GOALS_2026(c) ==
    CASE c = <<"1", "5", "0", "4">> -> FromInt(80000)
      [] c = <<"5", "0", "2", "7">> -> FromInt(90200)
      [] c = <<"5", "0", "5", "2">> -> FromInt(59300)
      [] c = <<"5", "2", "5", "5">> -> FromInt(63200)
      [] c = <<"5", "7", "7", "8">> -> FromInt(56550)
      [] c = <<"6", "1", "7", "6">> -> FromInt(63100)
      [] c = <<"6", "7", "6", "9">> -> FromInt(53600)
      [] c = <<"7", "2", "6", "1">> -> FromInt(59600)
      [] OTHER -> None

(***************************************************************************)
(* The per-report part of the `if process:` block.                         *)
(***************************************************************************)
\* total_sales = totals["income"] if totals else None
total_sales_of(totals) == IF totals # None THEN totals.income ELSE None

\* ups_packages = get_customer_count(rows, "Shipping Charges (UPS)", default=0) or None
ups_packages_of(rows) ==
    LET c == get_customer_count(rows, n_ups, 0)
    IN  IF c # 0 THEN <<c>> ELSE None

\* A variant of net_sales_of: an absent total taken as 0.
net_sales_from_zero(total_sales, psp_income) ==
    RSub(IF total_sales # None THEN total_sales ELSE Zero, psp_income)

\* net_sales = (total_sales - psp_income) if (total_sales is not None) else None
net_sales_of(total_sales, psp_income) ==
    IF total_sales # None THEN RSub(total_sales, psp_income) ELSE None

\* A variant of avg_per_package: an absent numerator taken as 0.
avg_per_package_of_zero(x, ups_packages) ==
    IF ups_packages # None /\ ups_packages # <<0>>
    THEN RDivInt(IF x # None THEN x ELSE Zero, ups_packages[1])
    ELSE None

\* (x / ups_packages) if (x is not None and ups_packages) else None
avg_per_package(x, ups_packages) ==
    IF x # None /\ ups_packages # None /\ ups_packages # <<0>>
    THEN RDivInt(x, ups_packages[1])
    ELSE None

\* A variant of variance_of: the goal minus the sales.
variance_reversed(net_sales, prorated_goal) ==
    IF net_sales # None /\ prorated_goal # None
    THEN RSub(prorated_goal, net_sales)
    ELSE None

\* variance = (net_sales - prorated_goal) if both are not None else None
variance_of(net_sales, prorated_goal) ==
    IF net_sales # None /\ prorated_goal # None
    THEN RSub(net_sales, prorated_goal)
    ELSE None

\* center = (meta.get("center") or "").strip()
center_of(meta) == meta.center

\* monthly_goal, is_6day = goal_lookup[center] when center is a key, else None, False
goal_of(lookup, center) ==
    IF center # <<>> /\ center \in DOMAIN lookup THEN lookup[center] ELSE <<None, FALSE>>

c_report == <<"(", "R", "e", "p", "o", "r", "t", " ", "#">>

\* A variant of NeedsProration: the proration skipped when the range is empty
\* (start after end).
NeedsProrationOrdered(parsed, lookup) ==
    /\ goal_of(lookup, center_of(parsed.meta))[1] # None
    /\ parsed.meta.start_date # None
    /\ parsed.meta.end_date # None
    /\ DateLE(parsed.meta.start_date, parsed.meta.end_date)

\* Whether the conditional at lines 292-296 calls prorated_goal_exact_calendar.
NeedsProration(parsed, lookup) ==
    /\ goal_of(lookup, center_of(parsed.meta))[1] # None
    /\ parsed.meta.start_date # None
    /\ parsed.meta.end_date # None

\* The dict appended to rows_out, given what the proration returned (None
\* when it was not called).
StoreRow(i, parsed, lookup, prorated_goal) ==
    LET meta == parsed.meta
        rows == parsed.rows
        center == center_of(meta)
        total_sales == total_sales_of(parsed.totals)
        ups_shipping == get_income(rows, n_ups, None)
        ups_packages == ups_packages_of(rows)
        meter_sales == get_income(rows, n_meter, None)
        mailbox_sales == get_income(rows, n_mailbox, None)
        notary_income == get_income(rows, n_notary, Zero)
        psp_income == get_income(rows, n_psp, Zero)
        net_sales == net_sales_of(total_sales, psp_income)
        printing_copies ==
            RAdd(RAdd(get_income(rows, n_printing, Zero), get_income(rows, n_copies, Zero)),
                 get_income(rows, n_color_copies, Zero))
        packaging_bucket ==
            RAdd(RAdd(RAdd(get_income(rows, n_office, Zero),
                           get_income(rows, n_pack_materials, Zero)),
                      get_income(rows, n_pack_fee, Zero)),
                 get_income(rows, n_retail, Zero))
        shred_sales ==
            RAdd(RAdd(get_income(rows, n_shred_sales, Zero), get_income(rows, n_shred, Zero)),
                 get_income(rows, n_shredding, Zero))
        goal == goal_of(lookup, center)
    IN  [Center |-> IF center # <<>> THEN center
                    ELSE c_report \o IntToChars(i) \o <<")">>,
         Store |-> CENTER_NAMES(center),
         DateRange |-> meta.date_range,
         Workweek |-> IF goal[2] THEN "6-day" ELSE "7-day",
         TotalSales |-> total_sales,
         PublicServicePayments |-> psp_income,
         NetSales |-> net_sales,
         AverageMeterPerPackage |-> avg_per_package(meter_sales, ups_packages),
         TotalUPSShipping |-> ups_shipping,
         AverageUPSPackage |-> avg_per_package(ups_shipping, ups_packages),
         TotalMeterSales |-> meter_sales,
         Packaging |-> packaging_bucket,
         NotaryPlusPSP |-> RAdd(notary_income, psp_income),
         MailboxSales |-> mailbox_sales,
         PrintingCopies |-> printing_copies,
         ShredSales |-> shred_sales,
         MonthlyGoal |-> goal[1],
         ProratedGoal |-> prorated_goal,
         Variance |-> variance_of(net_sales, prorated_goal),
         ups_packages |-> IF ups_packages # None THEN ups_packages[1] ELSE 0,
         is_6day |-> IF goal[2] THEN 1 ELSE 0]

(***************************************************************************)
(* The subtotal rows.                                                      *)
(***************************************************************************)
\* A variant of SumMin1: Series.sum() without min_count, absent values and
\* the empty column summing to 0.
RECURSIVE SumCoerced(_)
SumCoerced(col) ==
    IF Len(col) = 0 THEN Zero
    ELSE LET rest == SumCoerced(SubSeq(col, 1, Len(col) - 1))
             x == col[Len(col)]
         IN  IF x = None THEN rest ELSE RAdd(rest, x)

\* Series.sum(min_count=1): the sum of the present values, absent (NaN) when
\* none is present.
RECURSIVE SumMin1(_)
SumMin1(col) ==
    IF Len(col) = 0 THEN None
    ELSE LET rest == SumMin1(SubSeq(col, 1, Len(col) - 1))
             x == col[Len(col)]
         IN  IF x = None THEN rest
             ELSE IF rest = None THEN x
             ELSE RAdd(rest, x)

\* A variant of SumInt: the number of stores instead of their package counts.
CountRows(col) == Len(col)

\* Series.sum() of an integer column
RECURSIVE SumInt(_)
SumInt(col) ==
    IF Len(col) = 0 THEN 0
    ELSE SumInt(SubSeq(col, 1, Len(col) - 1)) + col[Len(col)]

\* x / pkgs where x may be NaN
NanDiv(x, pkgs) == IF x = None THEN None ELSE RDivInt(x, pkgs)

\* avg = (x / pkgs) if pkgs else None
group_avg(x, pkgs) == IF pkgs # 0 THEN NanDiv(x, pkgs) ELSE None

\* df[df["_is_6day"] == flag]
Filter6(rows, flag) == SelectSeq(rows, LAMBDA r : r.is_6day = flag)

build_totals_row(label, dfx) ==
    LET n == Len(dfx)
        pkgs == SumInt([i \in 1..n |-> dfx[i].ups_packages])
        ups_ship == SumMin1([i \in 1..n |-> dfx[i].TotalUPSShipping])
        meter == SumMin1([i \in 1..n |-> dfx[i].TotalMeterSales])
        ts == SumMin1([i \in 1..n |-> dfx[i].TotalSales])
        psp == SumMin1([i \in 1..n |-> dfx[i].PublicServicePayments])
        net == SumMin1([i \in 1..n |-> dfx[i].NetSales])
        pror_goal == SumMin1([i \in 1..n |-> dfx[i].ProratedGoal])
    IN  [Center |-> label,
         Store |-> "",
         DateRange |-> <<>>,
         Workweek |-> "",
         TotalSales |-> ts,
         PublicServicePayments |-> psp,
         NetSales |-> net,
         AverageMeterPerPackage |-> group_avg(meter, pkgs),
         TotalUPSShipping |-> ups_ship,
         AverageUPSPackage |-> group_avg(ups_ship, pkgs),
         TotalMeterSales |-> meter,
         Packaging |-> SumMin1([i \in 1..n |-> dfx[i].Packaging]),
         NotaryPlusPSP |-> SumMin1([i \in 1..n |-> dfx[i].NotaryPlusPSP]),
         MailboxSales |-> SumMin1([i \in 1..n |-> dfx[i].MailboxSales]),
         PrintingCopies |-> SumMin1([i \in 1..n |-> dfx[i].PrintingCopies]),
         ShredSales |-> SumMin1([i \in 1..n |-> dfx[i].ShredSales]),
         MonthlyGoal |-> SumMin1([i \in 1..n |-> dfx[i].MonthlyGoal]),
         ProratedGoal |-> pror_goal,
         Variance |-> variance_of(net, pror_goal)]

l_total6 == <<"T", "O", "T", "A", "L", " ", "(", "6", "-", "d", "a", "y", " ", "s", "t", "o", "r", "e", "s", ")">>

l_total7 == <<"T", "O", "T", "A", "L", " ", "(", "7", "-", "d", "a", "y", " ", "s", "t", "o", "r", "e", "s", ")">>

l_total_all == <<"T", "O", "T", "A", "L", " ", "(", "A", "l", "l", " ", "s", "t", "o", "r", "e", "s", ")">>

\* A variant of footer_rows_of: the subtotal of a group is built even when the
\* group is empty.
footer_rows_unguarded(df) ==
    <<build_totals_row(l_total6, Filter6(df, 1)),
      build_totals_row(l_total7, Filter6(df, 0)),
      build_totals_row(l_total_all, df)>>

\* if len(df6): ...  if len(df7): ...  footer_rows.append(... df)
footer_rows_of(df) ==
    LET df6 == Filter6(df, 1)
        df7 == Filter6(df, 0)
    IN  (IF Len(df6) # 0 THEN <<build_totals_row(l_total6, df6)>> ELSE <<>>)
          \o (IF Len(df7) # 0 THEN <<build_totals_row(l_total7, df7)>> ELSE <<>>)
          \o <<build_totals_row(l_total_all, df)>>

\* df.drop(columns=["_ups_packages", "_is_6day"]) of one row
DisplayRow(r) ==
    [f \in DOMAIN r \ {"ups_packages", "is_6day"} |-> r[f]]

\* pd.concat([df_display, pd.DataFrame(footer_rows)])
df_display_of(df) ==
    [i \in 1..Len(df) |-> DisplayRow(df[i])] \o footer_rows_of(df)

\* goal_lookup[c] = (float(g), s6) for the table rows with a center and a goal
goal_lookup_of(table) ==
    LET keep == {i \in 1..Len(table) : table[i].Center # <<>> /\ table[i].MonthlyGoal # None}
    IN  [c \in {table[i].Center : i \in keep} |->
            LET last == CHOOSE i \in keep :
                           /\ table[i].Center = c
                           /\ \A j \in keep : table[j].Center = c => j <= i
            IN  <<table[last].MonthlyGoal, table[last].SixDay>>]

(***************************************************************************)
(* Report lines.  A text is the tuple of its lines, each line a string;    *)
(* Tokens gives a line's whitespace-separated tokens, character by         *)
(* character, for the lines the inputs are made of.                        *)
(***************************************************************************)
l_center == "Center:"

l_1504 == "1504"

l_5027 == "5027"

l_date_range == "Date Range:"

l_to == "to"

l_2_9_2026 == "2/9/2026"

l_2_14_2026 == "2/14/2026"

l_2_30_2026 == "2/30/2026"

l_02_09_26 == "02/09/26"

l_2_14_26 == "2/14/26"

l_ups0 == "+ Shipping Charges (UPS) 0 0 $5.00 $0.00 $0.00"

l_ups10 == "+ Shipping Charges (UPS) 10 12 $200.00 $20.00 $16.67"

l_ups40 == "+ Shipping Charges (UPS) 40 45 $1,000.00 $25.00 $22.22"

l_meter == "+ Meter Mail 3 5 $30.00 $10.00 $6.00"

l_meter2 == "- Meter Mail 4 4 $1,234.56 $308.64 $308.64"

l_meter_glued == "+Meter Mail 7 8 $0.00 $0.00 $0.00"

l_meter_bad == "+ Meter Mail 3 5 $30.0 $10.00 $6.00"

l_mailbox == "+ Mailbox Service 6 6 $120.00 $20.00 $20.00"

l_notary == "+ Notary 1 1 $15.00 $15.00 $15.00"

l_psp == "- Public Service Payments 2 2 $500.00 $250.00 $250.00"

l_totals == "Totals 120 150 $18,057.89 $150.48 $120.39"

l_totals2 == "TOTALS 60 70 $6,500.00 $108.33 $92.86"

l_totals_bad == "Totals: 60 70 $6,500.00 $108.33 $92.86"

l_blank == ""

l_spaces == "   "

Tokens(ln) ==
    CASE ln = l_center ->
           <<<<"C", "e", "n", "t", "e", "r", ":">>>>
      [] ln = l_1504 ->
           <<<<"1", "5", "0", "4">>>>
      [] ln = l_5027 ->
           <<<<"5", "0", "2", "7">>>>
      [] ln = l_date_range ->
           <<<<"D", "a", "t", "e">>, <<"R", "a", "n", "g", "e", ":">>>>
      [] ln = l_to ->
           <<<<"t", "o">>>>
      [] ln = l_2_9_2026 ->
           <<<<"2", "/", "9", "/", "2", "0", "2", "6">>>>
      [] ln = l_2_14_2026 ->
           <<<<"2", "/", "1", "4", "/", "2", "0", "2", "6">>>>
      [] ln = l_2_30_2026 ->
           <<<<"2", "/", "3", "0", "/", "2", "0", "2", "6">>>>
      [] ln = l_02_09_26 ->
           <<<<"0", "2", "/", "0", "9", "/", "2", "6">>>>
      [] ln = l_2_14_26 ->
           <<<<"2", "/", "1", "4", "/", "2", "6">>>>
      [] ln = l_ups0 ->
           <<<<"+">>, <<"S", "h", "i", "p", "p", "i", "n", "g">>, <<"C", "h", "a", "r", "g", "e", "s">>, <<"(", "U", "P", "S", ")">>, <<"0">>, <<"0">>, <<"$", "5", ".", "0", "0">>, <<"$", "0", ".", "0", "0">>, <<"$", "0", ".", "0", "0">>>>
      [] ln = l_ups10 ->
           <<<<"+">>, <<"S", "h", "i", "p", "p", "i", "n", "g">>, <<"C", "h", "a", "r", "g", "e", "s">>, <<"(", "U", "P", "S", ")">>, <<"1", "0">>, <<"1", "2">>, <<"$", "2", "0", "0", ".", "0", "0">>, <<"$", "2", "0", ".", "0", "0">>, <<"$", "1", "6", ".", "6", "7">>>>
      [] ln = l_ups40 ->
           <<<<"+">>, <<"S", "h", "i", "p", "p", "i", "n", "g">>, <<"C", "h", "a", "r", "g", "e", "s">>, <<"(", "U", "P", "S", ")">>, <<"4", "0">>, <<"4", "5">>, <<"$", "1", ",", "0", "0", "0", ".", "0", "0">>, <<"$", "2", "5", ".", "0", "0">>, <<"$", "2", "2", ".", "2", "2">>>>
      [] ln = l_meter ->
           <<<<"+">>, <<"M", "e", "t", "e", "r">>, <<"M", "a", "i", "l">>, <<"3">>, <<"5">>, <<"$", "3", "0", ".", "0", "0">>, <<"$", "1", "0", ".", "0", "0">>, <<"$", "6", ".", "0", "0">>>>
      [] ln = l_meter2 ->
           <<<<"-">>, <<"M", "e", "t", "e", "r">>, <<"M", "a", "i", "l">>, <<"4">>, <<"4">>, <<"$", "1", ",", "2", "3", "4", ".", "5", "6">>, <<"$", "3", "0", "8", ".", "6", "4">>, <<"$", "3", "0", "8", ".", "6", "4">>>>
      [] ln = l_meter_glued ->
           <<<<"+", "M", "e", "t", "e", "r">>, <<"M", "a", "i", "l">>, <<"7">>, <<"8">>, <<"$", "0", ".", "0", "0">>, <<"$", "0", ".", "0", "0">>, <<"$", "0", ".", "0", "0">>>>
      [] ln = l_meter_bad ->
           <<<<"+">>, <<"M", "e", "t", "e", "r">>, <<"M", "a", "i", "l">>, <<"3">>, <<"5">>, <<"$", "3", "0", ".", "0">>, <<"$", "1", "0", ".", "0", "0">>, <<"$", "6", ".", "0", "0">>>>
      [] ln = l_mailbox ->
           <<<<"+">>, <<"M", "a", "i", "l", "b", "o", "x">>, <<"S", "e", "r", "v", "i", "c", "e">>, <<"6">>, <<"6">>, <<"$", "1", "2", "0", ".", "0", "0">>, <<"$", "2", "0", ".", "0", "0">>, <<"$", "2", "0", ".", "0", "0">>>>
      [] ln = l_notary ->
           <<<<"+">>, <<"N", "o", "t", "a", "r", "y">>, <<"1">>, <<"1">>, <<"$", "1", "5", ".", "0", "0">>, <<"$", "1", "5", ".", "0", "0">>, <<"$", "1", "5", ".", "0", "0">>>>
      [] ln = l_psp ->
           <<<<"-">>, <<"P", "u", "b", "l", "i", "c">>, <<"S", "e", "r", "v", "i", "c", "e">>, <<"P", "a", "y", "m", "e", "n", "t", "s">>, <<"2">>, <<"2">>, <<"$", "5", "0", "0", ".", "0", "0">>, <<"$", "2", "5", "0", ".", "0", "0">>, <<"$", "2", "5", "0", ".", "0", "0">>>>
      [] ln = l_totals ->
           <<<<"T", "o", "t", "a", "l", "s">>, <<"1", "2", "0">>, <<"1", "5", "0">>, <<"$", "1", "8", ",", "0", "5", "7", ".", "8", "9">>, <<"$", "1", "5", "0", ".", "4", "8">>, <<"$", "1", "2", "0", ".", "3", "9">>>>
      [] ln = l_totals2 ->
           <<<<"T", "O", "T", "A", "L", "S">>, <<"6", "0">>, <<"7", "0">>, <<"$", "6", ",", "5", "0", "0", ".", "0", "0">>, <<"$", "1", "0", "8", ".", "3", "3">>, <<"$", "9", "2", ".", "8", "6">>>>
      [] ln = l_totals_bad ->
           <<<<"T", "o", "t", "a", "l", "s", ":">>, <<"6", "0">>, <<"7", "0">>, <<"$", "6", ",", "5", "0", "0", ".", "0", "0">>, <<"$", "1", "0", "8", ".", "3", "3">>, <<"$", "9", "2", ".", "8", "6">>>>
      [] ln = l_blank -> <<>>
      [] ln = l_spaces -> <<>>

\* The token view of a text.
Lex(text) == SubSeq([i \in 1..Len(text) |-> Tokens(text[i])], 1, Len(text))

\* not text.strip()
IsBlank(text) == \A i \in 1..Len(text) : Tokens(text[i]) = <<>>

(***************************************************************************)
(* Report texts: each section of the report format present, absent or      *)
(* malformed, with a blank line between sections.                          *)
(***************************************************************************)
CenterParts ==
    {<<>>, <<l_center, l_1504, l_blank>>, <<l_center, l_5027, l_blank>>}

DateLines(a, b) == <<l_date_range, a, l_to, b, l_blank>>

DateParts ==
    {<<>>,
     DateLines(l_2_9_2026, l_2_14_2026),
     DateLines(l_02_09_26, l_2_14_26),
     DateLines(l_2_9_2026, l_2_30_2026),
     DateLines(l_2_30_2026, l_2_14_2026),
     DateLines(l_2_14_2026, l_2_9_2026)}

UpsParts == {<<>>, <<l_ups0>>, <<l_ups10>>, <<l_ups40>>}

MeterParts == {<<>>, <<l_meter>>}

PspParts == {<<>>, <<l_psp>>}

TotalsParts == {<<>>, <<l_totals>>, <<l_totals2>>}

\* Every combination of the sections: one report alone in the batch.
AllTexts ==
    {c \o d \o u \o m \o p \o t :
        c \in CenterParts, d \in DateParts, u \in UpsParts, m \in MeterParts,
        p \in PspParts, t \in TotalsParts} \ {<<>>}

ValidDates == DateLines(l_2_9_2026, l_2_14_2026)

\* The reports of a batch of several stores.
BatchTexts ==
    {<<>>,
     <<l_spaces, l_blank>>,
     <<l_center, l_1504, l_blank>> \o ValidDates
         \o <<l_ups10, l_meter, l_mailbox, l_notary, l_psp, l_totals>>,
     <<l_center, l_5027, l_blank>> \o ValidDates \o <<l_ups40, l_psp, l_totals2>>,
     <<l_center, l_1504, l_blank>> \o ValidDates \o <<l_psp, l_totals2>>,
     <<l_center, l_5027, l_blank>> \o DateLines(l_2_9_2026, l_2_30_2026)
         \o <<l_ups10, l_meter, l_totals>>,
     ValidDates \o <<l_ups0, l_meter>>,
     <<l_center, l_1504, l_blank>> \o <<l_totals_bad>>,
     <<l_center, l_5027, l_blank>> \o DateLines(l_2_14_2026, l_2_9_2026)
         \o <<l_ups40, l_totals>>,
     <<l_center, l_1504, l_blank>> \o DateLines(l_02_09_26, l_2_14_26)
         \o <<l_meter, l_meter2, l_totals>>}

NumSlots == 2

\* The goals table after editing: the goal and the checkbox of the first two
\* centers vary, the others keep their prefill.
GoalEdits ==
    {<<g, a, b>> : g \in {FEB_GOALS_2026(Centers[1]), FromInt(28000), None},
                   a \in BOOLEAN, b \in BOOLEAN}

GoalsTable(e) ==
    [i \in 1..Len(Centers) |->
        [Center |-> Centers[i],
         Store |-> CENTER_NAMES(Centers[i]),
         MonthlyGoal |-> IF i = 1 THEN e[1] ELSE FEB_GOALS_2026(Centers[i]),
         SixDay |-> IF i = 1 THEN e[2] ELSE IF i = 2 THEN e[3] ELSE FALSE]]

\* The parser's result for each text of the inputs, computed once.
ParseTable ==
    [t \in AllTexts \cup BatchTexts |-> parse_worker_sales_by_category(Lex(t))]

Parse(t) == ParseTable[t]

(***************************************************************************)
(* The script: the texts are pasted and the goals edited, then the button  *)
(* is pressed and the `if process:` block runs.                            *)
(***************************************************************************)
Init ==
    /\ pc = "ui"
    /\ \/ report_texts \in [1..NumSlots -> BatchTexts]
       \/ \E t \in AllTexts :
             report_texts = [i \in 1..NumSlots |-> IF i = 1 THEN t ELSE <<>>]
    /\ \E e \in GoalEdits : goals_df = GoalsTable(e)
    /\ idx = 0
    /\ rows_out = <<>>
    /\ loop = NoLoop
    /\ call = [op |-> "none"]
    /\ ret = [done |-> FALSE, value |-> None]

\* goal_lookup, as built when the button is pressed
goal_lookup == goal_lookup_of(goals_df)

\* The button is pressed: the loop over the text areas starts.
Process ==
    /\ pc = "ui"
    /\ pc' = "loop"
    /\ rows_out' = <<>>
    /\ idx' = 1
    /\ UNCHANGED <<report_texts, goals_df, loop, call, ret>>

\* if not text.strip(): continue
SkipBlank ==
    /\ pc = "loop" /\ idx <= Len(report_texts) /\ ~loop.active
    /\ IsBlank(report_texts[idx])
    /\ idx' = idx + 1
    /\ UNCHANGED <<pc, report_texts, goals_df, rows_out, loop, call, ret>>

\* One report, up to the proration: either the day loop is entered, or the
\* prorated goal is None and the row is appended at once.
BeginReport ==
    /\ pc = "loop" /\ idx <= Len(report_texts) /\ ~loop.active
    /\ ~IsBlank(report_texts[idx])
    /\ LET parsed == Parse(report_texts[idx])
           goal == goal_of(goal_lookup, center_of(parsed.meta))
       IN  IF NeedsProration(parsed, goal_lookup)
           THEN /\ loop' = EnterLoop(goal[1], parsed.meta.start_date,
                                     parsed.meta.end_date, goal[2])
                /\ UNCHANGED <<rows_out, idx>>
           ELSE /\ rows_out' = Append(rows_out, StoreRow(idx, parsed, goal_lookup, None))
                /\ idx' = idx + 1
                /\ UNCHANGED loop
    /\ UNCHANGED <<pc, report_texts, goals_df, call, ret>>

\* The proration returned its total: the variance is taken and the row appended.
FinishReport ==
    /\ pc = "loop" /\ LoopExhausted
    /\ rows_out' = Append(rows_out, StoreRow(idx, Parse(report_texts[idx]),
                                             goal_lookup, loop.total))
    /\ idx' = idx + 1
    /\ loop' = NoLoop
    /\ UNCHANGED <<pc, report_texts, goals_df, call, ret>>

\* if not rows_out: st.error(...); st.stop()
NoReports ==
    /\ pc = "loop" /\ idx > Len(report_texts)
    /\ rows_out = <<>>
    /\ pc' = "stopped"
    /\ UNCHANGED <<report_texts, goals_df, idx, rows_out, loop, call, ret>>

\* The table is assembled and shown: the store rows, then the subtotal rows.
ShowResults ==
    /\ pc = "loop" /\ idx > Len(report_texts)
    /\ rows_out # <<>>
    /\ pc' = "shown"
    /\ UNCHANGED <<report_texts, goals_df, idx, rows_out, loop, call, ret>>

\* The table on screen (st.dataframe(df_display)), once shown.
df_display == IF pc = "shown" THEN df_display_of(rows_out) ELSE <<>>

Next ==
    \/ Process
    \/ SkipBlank
    \/ BeginReport
    \/ ProrateStep
    \/ FinishReport
    \/ NoReports
    \/ ShowResults

Spec == Init /\ [][Next]_vars

(***************************************************************************)
(* Direct calls of the helpers: the arguments are drawn in the initial     *)
(* state, the action applies the helper and records what it returns.       *)
(***************************************************************************)
MaxSpan == 34

ProrateGoals == {0, 1, 59300, 80000}

FullMonthYears == {2000, 2024, 2026, 2100}

RECURSIVE DatesFrom(_, _)
DatesFrom(d, n) == IF n = 0 THEN {} ELSE {d} \cup DatesFrom(NextDay(d), n - 1)

\* Late January to early March of a leap year.
WindowDates == DatesFrom(<<2024, 1, 29>>, MaxSpan)

\* A change of year.
NewYearDates == DatesFrom(<<2025, 12, 30>>, 4)

ProrateCalls ==
    LET full == {<<<<y, m, 1>>, <<y, m, month_days(y, m)>>>> :
                    y \in FullMonthYears, m \in 1..12}
        win  == (WindowDates \X WindowDates) \cup (NewYearDates \X NewYearDates)
        some == {[op |-> "prorated_goal_exact_calendar", monthly_goal |-> FromInt(g),
                  start |-> r[1], end |-> r[2], six_day_store |-> six] :
                    g \in ProrateGoals, r \in full \cup win, six \in BOOLEAN}
        none == {[op |-> "prorated_goal_exact_calendar", monthly_goal |-> a[1],
                  start |-> a[2], end |-> a[3], six_day_store |-> six] :
                    a \in {<<None, <<2026, 2, 9>>, <<2026, 2, 14>>>>,
                           <<FromInt(80000), None, <<2026, 2, 14>>>>,
                           <<FromInt(80000), <<2026, 2, 9>>, None>>},
                    six \in BOOLEAN}
    IN  some \cup none

NoCall == [op |-> "none"]

Pending == [done |-> FALSE, value |-> None]

Returned(v) == [done |-> TRUE, value |-> v]

\* The script at rest: nothing pasted, nothing processed.
UiIdle ==
    /\ pc = "ui"
    /\ report_texts = <<>>
    /\ goals_df = <<>>
    /\ idx = 0
    /\ rows_out = <<>>
    /\ loop = NoLoop

UiVars == <<pc, report_texts, goals_df, idx, rows_out>>

InitProrate ==
    /\ UiIdle
    /\ call \in ProrateCalls
    /\ ret = Pending

\* if monthly_goal is None or start is None or end is None: return None
CallProrate ==
    /\ call.op = "prorated_goal_exact_calendar"
    /\ ~ret.done
    /\ ~loop.active
    /\ IF call.monthly_goal = None \/ call.start = None \/ call.end = None
       THEN ret' = Returned(None) /\ UNCHANGED loop
       ELSE /\ loop' = EnterLoop(call.monthly_goal, call.start, call.end,
                                 call.six_day_store)
            /\ UNCHANGED ret
    /\ UNCHANGED <<call, UiVars>>

\* return total
ProrateReturn ==
    /\ call.op = "prorated_goal_exact_calendar"
    /\ LoopExhausted
    /\ ret' = Returned(loop.total)
    /\ loop' = NoLoop
    /\ UNCHANGED <<call, UiVars>>

NextProrate == CallProrate \/ ProrateStep \/ ProrateReturn

SpecProrate == InitProrate /\ [][NextProrate]_vars

MaxLines == 3

ParseLines ==
    {l_meter, l_meter2, l_meter_glued, l_meter_bad, l_notary, l_totals, l_totals2, l_blank}

RECURSIVE TextsUpTo(_)
TextsUpTo(n) ==
    IF n = 0 THEN {<<>>}
    ELSE LET shorter == TextsUpTo(n - 1)
         IN  shorter \cup {Append(t, ln) : t \in shorter, ln \in ParseLines}

ParseCalls ==
    {[op |-> "parse_worker_sales_by_category", text |-> t] :
        t \in TextsUpTo(MaxLines) \cup BatchTexts}

InitParse ==
    /\ UiIdle
    /\ call \in ParseCalls
    /\ ret = Pending

CallParse ==
    /\ call.op = "parse_worker_sales_by_category"
    /\ ~ret.done
    /\ ret' = Returned(parse_worker_sales_by_category(Lex(call.text)))
    /\ UNCHANGED <<call, loop, UiVars>>

NextParse == CallParse

SpecParse == InitParse /\ [][NextParse]_vars

(***************************************************************************)
(* Properties of the proration.                                            *)
(***************************************************************************)
ProrateReturned == call.op = "prorated_goal_exact_calendar" /\ ret.done

ProrateArgsPresent ==
    call.op = "prorated_goal_exact_calendar"
        /\ call.monthly_goal # None /\ call.start # None /\ call.end # None

IsFullMonth(s, e) ==
    /\ s[1] = e[1] /\ s[2] = e[2]
    /\ s[3] = 1
    /\ NextDay(e)[3] = 1

\* C1: a range that is exactly one calendar month (first day to last day)
\* prorates to the monthly goal itself, for a 7-day and for a 6-day store.
C1_FullMonthIsGoal ==
    (ProrateReturned /\ ProrateArgsPresent /\ IsFullMonth(call.start, call.end))
        => ret.value = call.monthly_goal

\* C1's case: a leap-year February of a 6-day store with a positive goal has
\* been prorated.
C1_Witness ==
    /\ ProrateReturned /\ ProrateArgsPresent
    /\ call.start = <<2024, 2, 1>> /\ call.end = <<2024, 2, 29>>
    /\ call.six_day_store
    /\ call.monthly_goal = FromInt(80000)
    /\ ret.value = FromInt(80000)

\* The days of month <<y, m>> inside [s, e] that earn a contribution.
PaidDays(y, m, s, e, six) ==
    {d \in 1..31 :
        /\ d <= month_days(y, m)
        /\ DateLE(s, <<y, m, d>>) /\ DateLE(<<y, m, d>>, e)
        /\ (six => Weekday(<<y, m, d>>) # 6)}

SundaysOf(y, m) ==
    Cardinality({d \in 1..31 : d <= month_days(y, m) /\ Weekday(<<y, m, d>>) = 6})

RMulInt(a, k) == Norm(a[1] * k, a[2])

\* One month's part: (paid days of the month in range) * g / (paid days of the month).
MonthShare(g, ym, s, e, six) ==
    LET denom == month_days(ym[1], ym[2])
                   - (IF six THEN SundaysOf(ym[1], ym[2]) ELSE 0)
    IN  RMulInt(RDivInt(g, denom), Cardinality(PaidDays(ym[1], ym[2], s, e, six)))

RECURSIVE SumShares(_, _, _, _, _)
SumShares(months, g, s, e, six) ==
    IF months = {} THEN Zero
    ELSE LET ym == CHOOSE x \in months : TRUE
         IN  RAdd(MonthShare(g, ym, s, e, six), SumShares(months \ {ym}, g, s, e, six))

ExpectedProrate(g, s, e, six) ==
    SumShares({ym \in (s[1]..e[1]) \X (1..12) :
                  PaidDays(ym[1], ym[2], s, e, FALSE) # {}}, g, s, e, six)

\* C2: the result is the sum over the days of [start, end] of the per-day
\* contribution, each month touched using the same goal over its own day
\* (7-day) or non-Sunday day (6-day) count, Sundays of a 6-day store earning 0.
\* In particular a single day of a 7-day store earns g / days_in_month.
C2_SumOfDailyShares ==
    /\ (ProrateReturned /\ ProrateArgsPresent /\ DateLE(call.start, call.end))
          => ret.value = ExpectedProrate(call.monthly_goal, call.start, call.end,
                                         call.six_day_store)
    /\ (ProrateReturned /\ ProrateArgsPresent /\ call.start = call.end
          /\ ~call.six_day_store)
          => ret.value = RDivInt(call.monthly_goal,
                                 month_days(call.start[1], call.start[2]))

\* C2's case: a 6-day range over three calendar months has been prorated.
C2_Witness ==
    /\ ProrateReturned /\ ProrateArgsPresent
    /\ call.start = <<2024, 1, 30>> /\ call.end = <<2024, 3, 2>>
    /\ call.six_day_store
    /\ call.monthly_goal = FromInt(59300)
    /\ ret.value # call.monthly_goal

(***************************************************************************)
(* Properties of the parser.                                               *)
(***************************************************************************)
ParseReturned == call.op = "parse_worker_sales_by_category" /\ ret.done

\* The lines of the text that are category rows named cat.
RowLinesOf(text, cat) ==
    {i \in 1..Len(text) : IsRowLine(Tokens(text[i])) /\ RowName(Tokens(text[i])) = cat}

CategoriesOf(text) ==
    {RowName(Tokens(text[i])) : i \in {j \in 1..Len(text) : IsRowLine(Tokens(text[j]))}}

Max(S) == CHOOSE x \in S : \A y \in S : y <= x

\* C3: the categories mapping has exactly one entry per category name of the
\* text, holding the five fields of the last row line of that name.
C3_LastOccurrenceWins ==
    ParseReturned =>
        /\ DOMAIN ret.value.rows = CategoriesOf(call.text)
        /\ \A cat \in CategoriesOf(call.text) :
              ret.value.rows[cat]
                  = FieldsOf(Tokens(call.text[Max(RowLinesOf(call.text, cat))]))

\* C3's case: "Meter Mail" on two rows with different values, the later one kept.
C3_Witness ==
    /\ ParseReturned
    /\ call.text = <<l_meter, l_notary, l_meter2>>
    /\ ret.value.rows[n_meter].income = <<30864, 25>>
    /\ ret.value.rows[n_meter].customer_count = 4

(***************************************************************************)
(* Properties of the batch: the rows of rows_out and of the table shown,   *)
(* against the reports they were made from.                                *)
(***************************************************************************)
\* The slots that hold a report, in submission order.
Kept ==
    SelectSeq([i \in 1..Len(report_texts) |-> i], LAMBDA i : ~IsBlank(report_texts[i]))

\* The parsed report behind row k of rows_out.
RowParsed(k) == Parse(report_texts[Kept[k]])

Shown == pc = "shown"

HasRow(rows, cat) == cat \in DOMAIN rows

\* C4: net sales plus the "Public Service Payments" income (0 when the category
\* is missing) is the Totals row income, and net sales is absent exactly when
\* the report has no Totals row.
C4_NetSales ==
    \A k \in 1..Len(rows_out) :
        LET p == RowParsed(k)
            r == rows_out[k]
            psp == IF HasRow(p.rows, n_psp) THEN p.rows[n_psp].income ELSE Zero
        IN  /\ (r.NetSales = None) <=> (p.totals = None)
            /\ p.totals # None => RAdd(r.NetSales, psp) = p.totals.income

\* C4's case: Totals $18,057.89 and Public Service Payments $500.00 for center
\* 1504 give net sales 17557.89.
C4_Witness ==
    /\ Shown
    /\ \E k \in 1..Len(rows_out) :
          /\ rows_out[k].Center = Centers[1]
          /\ RowParsed(k).totals # None
          /\ RowParsed(k).totals.income = <<1805789, 100>>
          /\ HasRow(RowParsed(k).rows, n_psp)
          /\ RowParsed(k).rows[n_psp].income = <<500, 1>>
          /\ rows_out[k].NetSales = <<1755789, 100>>

\* C5: the per-store averages are present exactly when their category exists
\* and the "Shipping Charges (UPS)" customer count exists and is not 0, and are
\* then the category income over that count; with no "Meter Mail" row the meter
\* sales and the meter average are both absent.
C5_Averages ==
    \A k \in 1..Len(rows_out) :
        LET p == RowParsed(k)
            r == rows_out[k]
            hasUps == HasRow(p.rows, n_ups)
            hasMeter == HasRow(p.rows, n_meter)
            cnt == IF hasUps THEN p.rows[n_ups].customer_count ELSE 0
        IN  /\ (r.AverageUPSPackage # None) <=> (hasUps /\ cnt # 0)
            /\ r.AverageUPSPackage # None
                  => RMulInt(r.AverageUPSPackage, cnt) = p.rows[n_ups].income
            /\ (r.AverageMeterPerPackage # None) <=> (hasMeter /\ hasUps /\ cnt # 0)
            /\ r.AverageMeterPerPackage # None
                  => RMulInt(r.AverageMeterPerPackage, cnt) = p.rows[n_meter].income
            /\ ~hasMeter => (r.TotalMeterSales = None /\ r.AverageMeterPerPackage = None)

\* C5's case: a report with 10 UPS packages and no "Meter Mail" row.
C5_Witness ==
    /\ Shown
    /\ \E k \in 1..Len(rows_out) :
          /\ ~HasRow(RowParsed(k).rows, n_meter)
          /\ HasRow(RowParsed(k).rows, n_ups)
          /\ RowParsed(k).rows[n_ups].customer_count = 10
          /\ rows_out[k].AverageUPSPackage = <<20, 1>>
          /\ rows_out[k].TotalMeterSales = None
          /\ rows_out[k].AverageMeterPerPackage = None

\* The subtotal rows of the table shown: the positions after the store rows.
FooterAt(T) == (Len(rows_out) + 1)..Len(T)

\* The stores a subtotal row stands for.
GroupOf(label) ==
    {k \in 1..Len(rows_out) :
        \/ label = l_total_all
        \/ label = l_total6 /\ rows_out[k].Workweek = "6-day"
        \/ label = l_total7 /\ rows_out[k].Workweek = "7-day"}

UpsIncomeOf(k) ==
    IF HasRow(RowParsed(k).rows, n_ups) THEN RowParsed(k).rows[n_ups].income ELSE Zero

UpsCountOf(k) ==
    IF HasRow(RowParsed(k).rows, n_ups) THEN RowParsed(k).rows[n_ups].customer_count ELSE 0

RECURSIVE TotalUpsIncome(_)
TotalUpsIncome(G) ==
    IF G = {} THEN Zero
    ELSE LET k == CHOOSE x \in G : TRUE
         IN  RAdd(UpsIncomeOf(k), TotalUpsIncome(G \ {k}))

RECURSIVE TotalUpsCount(_)
TotalUpsCount(G) ==
    IF G = {} THEN 0
    ELSE LET k == CHOOSE x \in G : TRUE
         IN  UpsCountOf(k) + TotalUpsCount(G \ {k})

\* C6: in every subtotal row Average UPS Package is the group's summed UPS
\* income over the group's summed UPS package count (a missing count is 0), and
\* is absent when that count is 0.
C6_GroupAverage ==
    Shown =>
        LET T == df_display
        IN  \A i \in FooterAt(T) :
                LET G == GroupOf(T[i].Center)
                    n == TotalUpsCount(G)
                IN  IF n = 0
                    THEN T[i].AverageUPSPackage = None
                    ELSE T[i].AverageUPSPackage = RDivInt(TotalUpsIncome(G), n)

\* C6's case: two stores averaging 20 (10 packages) and 25 (40 packages); the
\* all-stores average is 24, not the mean 22.5 of the two.
C6_Witness ==
    /\ Shown
    /\ Len(rows_out) = 2
    /\ rows_out[1].AverageUPSPackage = <<20, 1>>
    /\ rows_out[2].AverageUPSPackage = <<25, 1>>
    /\ df_display[Len(df_display)].Center = l_total_all
    /\ df_display[Len(df_display)].AverageUPSPackage = <<24, 1>>

\* The Center cell of the row made from slot i.
CenterCell(i) ==
    LET c == Parse(report_texts[i]).meta.center
    IN  IF c # None THEN c ELSE c_report \o IntToChars(i) \o <<")">>

\* C7: the table shown has one row per non-blank report, in submission order,
\* then the 6-day subtotal iff some store is 6-day, the 7-day subtotal iff some
\* store is 7-day, and the all-stores subtotal last; no subtotal row stands for
\* an empty group.
C7_TableLayout ==
    Shown =>
        LET T == df_display
            n == Len(Kept)
            any6 == \E k \in 1..Len(rows_out) : rows_out[k].Workweek = "6-day"
            any7 == \E k \in 1..Len(rows_out) : rows_out[k].Workweek = "7-day"
            labels == (IF any6 THEN <<l_total6>> ELSE <<>>)
                        \o (IF any7 THEN <<l_total7>> ELSE <<>>)
                        \o <<l_total_all>>
        IN  /\ Len(rows_out) = n
            /\ Len(T) = n + Len(labels)
            /\ \A k \in 1..n :
                  /\ T[k].Center = CenterCell(Kept[k])
                  /\ T[k] = DisplayRow(rows_out[k])
            /\ \A j \in 1..Len(labels) : T[n + j].Center = labels[j]
            /\ \A i \in FooterAt(T) : GroupOf(T[i].Center) # {}

\* C7's case: a 6-day store and a 7-day store, two store rows and the three
\* subtotal rows.
C7_Witness ==
    /\ Shown
    /\ Len(rows_out) = 2
    /\ rows_out[1].Workweek = "6-day"
    /\ rows_out[2].Workweek = "7-day"
    /\ rows_out[1].Center # rows_out[2].Center
    /\ Len(df_display) = 5
    /\ df_display[3].Center = l_total6
    /\ df_display[4].Center = l_total7
    /\ df_display[5].Center = l_total_all

\* C8: the variance plus the prorated goal is the net sales when both are
\* present (zero at goal, positive above it), and the variance is absent when
\* either is absent.
C8_Variance ==
    \A k \in 1..Len(rows_out) :
        LET r == rows_out[k]
        IN  IF r.NetSales # None /\ r.ProratedGoal # None
            THEN /\ r.Variance # None
                 /\ RAdd(r.Variance, r.ProratedGoal) = r.NetSales
                 /\ (r.NetSales = r.ProratedGoal => r.Variance = Zero)
                 /\ (r.Variance[1] > 0 <=>
                        r.NetSales[1] * r.ProratedGoal[2] > r.ProratedGoal[1] * r.NetSales[2])
            ELSE r.Variance = None

\* C8's case: net sales 6000 against a prorated goal of 6000 (28000 a month,
\* six of February's 28 days), variance 0.
C8_Witness ==
    /\ Shown
    /\ \E k \in 1..Len(rows_out) :
          /\ rows_out[k].MonthlyGoal = <<28000, 1>>
          /\ rows_out[k].NetSales = <<6000, 1>>
          /\ rows_out[k].ProratedGoal = <<6000, 1>>
          /\ rows_out[k].Variance = Zero

CurrencyFields ==
    {"TotalSales", "NetSales", "TotalUPSShipping", "TotalMeterSales", "MailboxSales",
     "ProratedGoal"}

\* The sum of field f over the stores of G that have it.
RECURSIVE SumPresent(_, _)
SumPresent(G, f) ==
    IF G = {} THEN Zero
    ELSE LET k == CHOOSE x \in G : TRUE
         IN  RAdd(rows_out[k][f], SumPresent(G \ {k}, f))

\* C9: a report with no Totals row has Total Sales absent; in every subtotal
\* row each currency field is the sum over the stores of the group that have
\* the field, and is absent when none of them has it.
C9_AbsentIsNotZero ==
    /\ \A k \in 1..Len(rows_out) :
          RowParsed(k).totals = None => rows_out[k].TotalSales = None
    /\ Shown =>
          LET T == df_display
          IN  \A i \in FooterAt(T) : \A f \in CurrencyFields :
                  LET G == GroupOf(T[i].Center)
                      have == {k \in G : rows_out[k][f] # None}
                  IN  IF have = {}
                      THEN T[i][f] = None
                      ELSE T[i][f] = SumPresent(have, f)

\* C9's case: a 6-day store without a Totals row next to a 7-day store with
\* Totals $6,500.00: the 6-day subtotal has no Total Sales, the all-stores
\* subtotal has 6500.
C9_Witness ==
    /\ Shown
    /\ Len(rows_out) = 2
    /\ RowParsed(1).totals = None
    /\ rows_out[1].TotalSales = None
    /\ rows_out[2].TotalSales = <<6500, 1>>
    /\ df_display[3].Center = l_total6
    /\ df_display[3].TotalSales = None
    /\ df_display[5].Center = l_total_all
    /\ df_display[5].TotalSales = <<6500, 1>>

\* The two date tokens of a text (the groups of the Date Range match), or None.
DateTokensOf(t) ==
    LET L == Lex(t)
        dAt == {i \in 1..Len(L) : DateRangeAt(L, i) # None}
    IN  IF dAt = {} THEN None ELSE DateRangeAt(L, Min(dAt))

DateTokensTable == [t \in AllTexts \cup BatchTexts |-> DateTokensOf(t)]

DateTokens(t) == DateTokensTable[t]

\* Both tokens present, at least one not a calendar date.
InvalidRange(t) ==
    /\ DateTokens(t) # None
    /\ \/ parse_date_any(DateTokens(t)[1]) = None
       \/ parse_date_any(DateTokens(t)[2]) = None

\* The row of a report with an invalid date range: the raw text as date range,
\* no prorated goal, no variance, the sales metrics as for any report; and
\* every report of the batch has its row.
C10_RowOfInvalidRange ==
    /\ \A k \in 1..Len(rows_out) :
          LET t == report_texts[Kept[k]]
              p == RowParsed(k)
              r == rows_out[k]
          IN  InvalidRange(t) =>
                 /\ r.DateRange = DateTokens(t)[1] \o c_sep \o DateTokens(t)[2]
                 /\ r.ProratedGoal = None
                 /\ r.Variance = None
                 /\ r.TotalSales = (IF p.totals # None THEN p.totals.income ELSE None)
                 /\ r.TotalUPSShipping
                       = (IF HasRow(p.rows, n_ups) THEN p.rows[n_ups].income ELSE None)
                 /\ r.TotalMeterSales
                       = (IF HasRow(p.rows, n_meter) THEN p.rows[n_meter].income ELSE None)
    /\ Shown => Len(rows_out) = Len(Kept)

\* The dates the parser resolved for a report with an invalid date range.
C10_NoResolvedDates ==
    \A k \in 1..Len(rows_out) :
        InvalidRange(report_texts[Kept[k]]) =>
            /\ RowParsed(k).meta.start_date = None
            /\ RowParsed(k).meta.end_date = None

\* C10: a report whose date range tokens are present but not both valid
\* calendar dates yields a row with the raw text as date range, exposes no
\* resolved date, has no prorated goal and no variance, and has its sales
\* metrics as usual, the rest of the batch being unaffected.
C10_InvalidDateRange == C10_RowOfInvalidRange /\ C10_NoResolvedDates

\* Row k comes from a report whose two dates resolved with the start after the
\* end, for a center with a goal entry.
ReversedWithGoal(k) ==
    LET meta == RowParsed(k).meta
    IN  /\ meta.start_date # None
        /\ meta.end_date # None
        /\ ~DateLE(meta.start_date, meta.end_date)
        /\ rows_out[k].MonthlyGoal # None

\* C11: a report whose start date is after its end date, for a center with a
\* goal entry, has a prorated goal that is present and exactly 0, a variance
\* equal to its net sales, and adds nothing to the prorated-goal sum of the
\* subtotal rows of its groups (the sum is that of the other stores).
C11_EmptyRangeIsZero ==
    /\ \A k \in 1..Len(rows_out) :
          ReversedWithGoal(k) =>
              /\ rows_out[k].ProratedGoal # None
              /\ rows_out[k].ProratedGoal = Zero
              /\ rows_out[k].Variance = rows_out[k].NetSales
    /\ Shown =>
          LET T == df_display
          IN  \A i \in FooterAt(T) : \A k \in GroupOf(T[i].Center) :
                  ReversedWithGoal(k) =>
                      LET others == {j \in GroupOf(T[i].Center) \ {k} :
                                        rows_out[j].ProratedGoal # None}
                      IN  /\ T[i].ProratedGoal # None
                          /\ T[i].ProratedGoal = SumPresent(others, "ProratedGoal")

\* C11's case: center 1504 with 2/9/2026 to 2/14/2026 (prorated 120000/7) next
\* to center 5027 with 2/14/2026 to 2/9/2026: the second store's prorated goal
\* is 0, its variance its net sales, and the all-stores prorated goal 120000/7.
C11_Witness ==
    /\ Shown
    /\ Len(rows_out) = 2
    /\ rows_out[1].ProratedGoal = <<120000, 7>>
    /\ ReversedWithGoal(2)
    /\ rows_out[2].Center = Centers[2]
    /\ rows_out[2].ProratedGoal = Zero
    /\ rows_out[2].NetSales = <<1805789, 100>>
    /\ rows_out[2].Variance = <<1805789, 100>>
    /\ df_display[Len(df_display)].Center = l_total_all
    /\ df_display[Len(df_display)].ProratedGoal = <<120000, 7>>

====
